---- MODULE Spec2Model ----
(***************************************************************************)
(* Model of the Glassy-Crystal-Box execution pipeline:                     *)
(*   crystalbox.main -> CodePipeline -> Backend.execute -> run_process     *)
(*   -> result mapping -> Suite.evaluate_tests -> report.                  *)
(*                                                                         *)
(* A text (Python str) is a sequence of one-character tokens; the two      *)
(* sentinel strings of backend.py are single tokens that carry no trailing *)
(* whitespace.  Python's None is the value None below, different from      *)
(* every text.                                                             *)
(*                                                                         *)
(* Cross-module names are bound to the definition they evidently denote    *)
(* (CodePipeline.execute calls Backend.execute; Backend.run_command is the *)
(* variants' get_run_command; a ProcessResult has no error pipe because    *)
(* run_process merges the error stream into the output).                   *)
(***************************************************************************)
EXTENDS Integers, Sequences, FiniteSets, TLC

\* ---- bounds -------------------------------------------------------------
MaxSuites == 2
MaxCases == 2
MaxLines == 3
MaxCalls == 2
MaxTextLen == 2

\* ---- texts --------------------------------------------------------------
Whitespace == {" "}

Alphabet == {"5", " "}

None == <<"None">>

EmptySentinel == <<"<empty>">>

MissingSentinel == <<"<missing output>">>

Texts == UNION {[1..n -> Alphabet] : n \in 0..MaxTextLen}

RECURSIVE RStrip(_)
RStrip(s) ==
    IF s = <<>> THEN s
    ELSE IF s[Len(s)] \in Whitespace THEN RStrip(SubSeq(s, 1, Len(s) - 1))
    ELSE s

\* the stored line without the `or '<empty>'`
StoredOutputKeepsEmpty(line) == RStrip(line)

\* test_output.rstrip() or '<empty>'
StoredOutput(line) == IF RStrip(line) = <<>> THEN EmptySentinel ELSE RStrip(line)

\* ---- enumerations -------------------------------------------------------
PASSED == "Passed"

FAILED == "Failed"

NOT_RUN == "Not Run"

TestStatus == {PASSED, FAILED, NOT_RUN}

\* LanguageExtensionMapping[ext.upper()].value ; "" when the key is absent
FromExtension(ext) ==
    CASE ext = "py" -> "python"
      [] ext = "js" -> "javascript"
      [] ext = "mjs" -> "javascript"
      [] ext = "c" -> "c"
      [] ext = "cpp" -> "cpp"
      [] ext = "go" -> "go"
      [] ext = "java" -> "java"
      [] ext = "rb" -> "ruby"
      [] OTHER -> ""

\* the *Backend classes of src/generators and the class attribute LANGUAGE
\* each of them declares ("" when the class has no such class attribute)
BackendClasses == {"PythonBackend", "JavascriptBackend"}

DeclaredLANGUAGE(cls) == IF cls = "PythonBackend" THEN "python" ELSE ""

\* the language each variant generates and runs harnesses for
BoundLanguage(cls) == IF cls = "PythonBackend" THEN "python" ELSE "javascript"

\* get_backend: the class whose LANGUAGE equals the language, "" if none
GetBackend(language) ==
    IF \E cls \in BackendClasses : DeclaredLANGUAGE(cls) = language
    THEN CHOOSE cls \in BackendClasses : DeclaredLANGUAGE(cls) = language
    ELSE ""

TesterScript(cls) ==
    IF cls = "PythonBackend" THEN "python_runner.py" ELSE "javascript_runner.js"

\* ---- inputs -------------------------------------------------------------
Extensions == {"py", "js", "rb", "txt"}

ExpectedTexts == {<<"5">>, EmptySentinel}

\* what the harness process can print: a raw line and the stream it went to
ProcLines ==
    {[text |-> <<"5">>, stream |-> "stdout"],
     [text |-> <<"5", " ">>, stream |-> "stdout"],
     [text |-> <<" ">>, stream |-> "stdout"],
     [text |-> <<"E">>, stream |-> "stderr"]}

ProcEmissions == UNION {[1..n -> ProcLines] : n \in 0..MaxLines}

ExitCodes == {0, 1}

\* ---- state --------------------------------------------------------------
VARIABLES num_suites, idx, pc, suite, backend, files, proc, run_result,
          printed, exception, steps, tc, tc_calls, tc_first

vars == <<num_suites, idx, pc, suite, backend, files, proc, run_result,
          printed, exception, steps, tc, tc_calls, tc_first>>

\* TestCaseDescription(test_id, inputs, expected_output)
TestCaseDescription(test_id, expected_output) ==
    [test_id |-> test_id, expected_output |-> expected_output,
     stdout |-> None, stderr |-> None, status |-> NOT_RUN]

\* Suite.__init__
SuiteInit(ext, outputs) ==
    [ext |-> ext,
     tests |-> [i \in 1..Len(outputs) |-> TestCaseDescription(i, outputs[i])],
     stderr_lines |-> <<>>,
     passed |-> 0, failed |-> 0, not_run |-> 0]

NoSuite == SuiteInit("", <<>>)

NoResult == [some |-> FALSE, exit_code |-> 0, output |-> <<>>]

\* run_process: every line rstripped, error stream merged into the output
RunProcess(emitted, code) ==
    [some |-> TRUE, exit_code |-> code,
     output |-> [i \in 1..Len(emitted) |-> RStrip(emitted[i].text)]]

\* run_result.err_pipe: run_process hands back no separate error lines
ErrPipe(result) == <<>>

NoTestCase == TestCaseDescription(0, <<>>)

Init ==
    /\ num_suites \in 0..MaxSuites
    /\ idx = 0
    /\ pc = "main"
    /\ suite = NoSuite
    /\ backend = ""
    /\ files = {}
    /\ proc = <<>>
    /\ run_result = NoResult
    /\ printed = <<>>
    /\ exception = ""
    /\ steps = <<>>
    /\ tc = NoTestCase
    /\ tc_calls = 0
    /\ tc_first = NOT_RUN

Msg(kind) == [kind |-> kind, suite |-> idx]

tcvars == <<tc, tc_calls, tc_first>>

Max(a, b) == IF a >= b THEN a ELSE b

\* ---- TestCaseDescription / Suite ------------------------------------------
\* evaluate that never writes Failed: a mismatch keeps the previous status
TestCaseEvaluateKeepsStatus(t) ==
    [t EXCEPT !.status = IF t.stdout = t.expected_output THEN PASSED ELSE @]

\* evaluate that only passes a test case that was not evaluated before
TestCaseEvaluateOnce(t) ==
    [t EXCEPT !.status = IF t.stdout = t.expected_output /\ @ = NOT_RUN
                         THEN PASSED ELSE FAILED]

\* TestCaseDescription.evaluate
TestCaseEvaluate(t) ==
    [t EXCEPT !.status = IF t.stdout = t.expected_output THEN PASSED ELSE FAILED]

\* Suite.evaluate_tests: the loop from test i onwards
RECURSIVE EvaluateFrom(_, _)
EvaluateFrom(s, i) ==
    IF i > Len(s.tests) THEN s
    ELSE LET t == TestCaseEvaluate(s.tests[i])
             s1 == [s EXCEPT !.tests[i] = t]
         IN  EvaluateFrom(
                 CASE t.status = PASSED -> [s1 EXCEPT !.passed = @ + 1]
                   [] t.status = FAILED -> [s1 EXCEPT !.failed = @ + 1]
                   [] t.status = NOT_RUN -> [s1 EXCEPT !.not_run = @ + 1],
                 i + 1)

\* evaluate_tests that forgets to count the failed test cases
SuiteEvaluateTestsDropsFailed(s) == [EvaluateFrom(s, 1) EXCEPT !.failed = 0]

SuiteEvaluateTests(s) == EvaluateFrom(s, 1)

\* ---- Backend ------------------------------------------------------------
\* a zip that repeats the output lines for the test cases left over
ZipCycle(output, tests, fillvalue) ==
    [k \in 1..Max(Len(output), Len(tests)) |->
        [test_output |-> IF k <= Len(output) THEN output[k]
                         ELSE IF Len(output) = 0 THEN fillvalue
                         ELSE output[((k - 1) % Len(output)) + 1],
         test_case |-> IF k <= Len(tests) THEN k ELSE 0]]

\* zip_longest(run_result.output, suite.tests, fillvalue): pair k holds the
\* k-th output line (or the fill value) and the index of the k-th test case
\* (0 when the test case side is the fill value, a str)
ZipLongest(output, tests, fillvalue) ==
    [k \in 1..Max(Len(output), Len(tests)) |->
        [test_output |-> IF k <= Len(output) THEN output[k] ELSE fillvalue,
         test_case |-> IF k <= Len(tests) THEN k ELSE 0]]

\* the for loop of Backend.execute from pair k onwards; assigning .stdout on
\* the fill value raises AttributeError and leaves the loop
RECURSIVE AssignFrom(_, _, _)
AssignFrom(tests, pairs, k) ==
    IF k > Len(pairs) THEN [tests |-> tests, raised |-> FALSE]
    ELSE IF pairs[k].test_case = 0 THEN [tests |-> tests, raised |-> TRUE]
    ELSE AssignFrom(
             [tests EXCEPT ![pairs[k].test_case].stdout =
                               StoredOutput(pairs[k].test_output)],
             pairs, k + 1)

\* ---- actions ------------------------------------------------------------
\* crystalbox.main: for suite in the_stuff
MainNextSuite ==
    /\ pc = "main"
    /\ idx < num_suites
    /\ \E ext \in Extensions, n \in 1..MaxCases :
         \E outputs \in [1..n -> ExpectedTexts] :
            suite' = SuiteInit(ext, outputs)
    /\ idx' = idx + 1
    /\ pc' = "init"
    /\ backend' = ""
    /\ proc' = <<>>
    /\ run_result' = NoResult
    /\ steps' = <<>>
    /\ UNCHANGED <<num_suites, files, printed, exception, tcvars>>

MainDone ==
    /\ pc = "main"
    /\ idx = num_suites
    /\ pc' = "done"
    /\ UNCHANGED <<num_suites, idx, suite, backend, files, proc, run_result,
                   printed, exception, steps, tcvars>>

\* CodePipeline.__init__
PipelineInit ==
    /\ pc = "init"
    /\ LET language == FromExtension(suite.ext)
       IN  IF language = ""
           THEN /\ printed' = Append(printed, Msg("critical_extension"))
                /\ exception' = "KeyError"
                /\ pc' = "crashed"
                /\ backend' = backend
           ELSE IF GetBackend(language) = ""
           THEN /\ exception' = "ImportError"
                /\ pc' = "crashed"
                /\ UNCHANGED <<printed, backend>>
           ELSE /\ backend' = GetBackend(language)
                /\ pc' = "setup"
                /\ UNCHANGED <<printed, exception>>
    /\ UNCHANGED <<num_suites, idx, suite, files, proc, run_result, steps,
                   tcvars>>

\* a setup that swallows the harness write failure and lets execute go on
SetupIgnoresWriteFailure ==
    /\ pc = "setup"
    /\ \E template_ok \in BOOLEAN, write_ok \in BOOLEAN :
         IF ~template_ok
         THEN /\ printed' = Append(printed, Msg("error_template"))
              /\ exception' = "OSError(template)"
              /\ pc' = "crashed"
              /\ steps' = Append(steps, "generate_failed")
              /\ files' = files
         ELSE IF ~write_ok
         THEN /\ pc' = "run"
              /\ steps' = Append(steps, "generate_failed")
              /\ UNCHANGED <<printed, files, exception>>
         ELSE /\ files' = files \cup {TesterScript(backend)}
              /\ pc' = "run"
              /\ steps' = Append(steps, "generate")
              /\ UNCHANGED <<printed, exception>>
    /\ UNCHANGED <<num_suites, idx, suite, backend, proc, run_result, tcvars>>

\* Backend.execute, first step: setup -> generate_script
Setup ==
    /\ pc = "setup"
    /\ \E template_ok \in BOOLEAN, write_ok \in BOOLEAN :
         IF ~template_ok
         THEN /\ printed' = Append(printed, Msg("error_template"))
              /\ exception' = "OSError(template)"
              /\ pc' = "crashed"
              /\ steps' = Append(steps, "generate_failed")
              /\ files' = files
         ELSE IF ~write_ok
         THEN /\ exception' = "OSError(write)"
              /\ pc' = "crashed"
              /\ steps' = Append(steps, "generate_failed")
              /\ UNCHANGED <<printed, files>>
         ELSE /\ files' = files \cup {TesterScript(backend)}
              /\ pc' = "run"
              /\ steps' = Append(steps, "generate")
              /\ UNCHANGED <<printed, exception>>
    /\ UNCHANGED <<num_suites, idx, suite, backend, proc, run_result, tcvars>>

\* `not run_result` with a mutant that also takes a non-zero exit code as
\* "could not be run"
TruthyWhenExitZero(result) == result.some /\ result.exit_code = 0

\* bool(run_result): None is false, a ProcessResult (a tuple of two fields)
\* is true whatever its fields hold
Truthy(result) == result.some

\* Backend.execute, second step: _run_tester
RunTester ==
    /\ pc = "run"
    /\ \E runtime_found \in BOOLEAN :
         IF ~runtime_found
         THEN /\ run_result' = NoResult
              /\ proc' = proc
              /\ steps' = steps
         ELSE /\ \E emitted \in ProcEmissions, code \in ExitCodes :
                    /\ proc' = emitted
                    /\ run_result' = RunProcess(emitted, code)
              /\ steps' = Append(steps, "run")
    /\ IF ~Truthy(run_result')
       THEN /\ printed' = Append(printed, Msg("error_not_run"))
            /\ pc' = "evaluate"
       ELSE /\ printed' = printed
            /\ pc' = "map"
    /\ UNCHANGED <<num_suites, idx, suite, backend, files, exception, tcvars>>

\* Backend.execute, third step: the zip_longest loop and the error pipe
MapResults ==
    /\ pc = "map"
    /\ LET pairs == ZipLongest(run_result.output, suite.tests, MissingSentinel)
           done == AssignFrom(suite.tests, pairs, 1)
       IN  IF done.raised
           THEN /\ suite' = [suite EXCEPT !.tests = done.tests]
                /\ exception' = "AttributeError"
                /\ pc' = "crashed"
                /\ steps' = Append(steps, "map_failed")
           ELSE /\ suite' = [suite EXCEPT
                                !.tests = done.tests,
                                !.stderr_lines = IF ErrPipe(run_result) # <<>>
                                                 THEN ErrPipe(run_result) ELSE @]
                /\ pc' = "cleanup"
                /\ steps' = Append(steps, "map")
                /\ exception' = exception
    /\ UNCHANGED <<num_suites, idx, backend, files, proc, run_result, printed,
                   tcvars>>

\* Backend.cleanup
Cleanup ==
    /\ pc = "cleanup"
    /\ files' = files \ {TesterScript(backend)}
    /\ pc' = "evaluate"
    /\ UNCHANGED <<num_suites, idx, suite, backend, proc, run_result, printed,
                   exception, steps, tcvars>>

\* CodePipeline.execute: the_suite.evaluate_tests()
EvaluateTests ==
    /\ pc = "evaluate"
    /\ suite' = SuiteEvaluateTests(suite)
    /\ pc' = "report"
    /\ steps' = Append(steps, "evaluate")
    /\ UNCHANGED <<num_suites, idx, backend, files, proc, run_result, printed,
                   exception, tcvars>>

\* CodePipeline.execute: print(the_suite.to_color_print())
Report ==
    /\ pc = "report"
    /\ printed' = Append(printed, Msg("report"))
    /\ pc' = "main"
    /\ steps' = Append(steps, "report")
    /\ UNCHANGED <<num_suites, idx, suite, backend, files, proc, run_result,
                   exception, tcvars>>

Next ==
    \/ MainNextSuite
    \/ MainDone
    \/ PipelineInit
    \/ Setup
    \/ RunTester
    \/ MapResults
    \/ Cleanup
    \/ EvaluateTests
    \/ Report

Spec == Init /\ [][Next]_vars
\* ---- TestCaseDescription.evaluate called directly -------------------------
\* a test case as it is between the backend's write of stdout and evaluate
StdoutValues == {None, MissingSentinel} \cup {StoredOutput(t) : t \in Texts}

EvalExpected == Texts \cup {EmptySentinel, MissingSentinel}

InitEvaluate ==
    /\ num_suites = 0
    /\ idx = 0
    /\ pc = "done"
    /\ suite = NoSuite
    /\ backend = ""
    /\ files = {}
    /\ proc = <<>>
    /\ run_result = NoResult
    /\ printed = <<>>
    /\ exception = ""
    /\ steps = <<>>
    /\ \E e \in EvalExpected, o \in StdoutValues :
          tc = [TestCaseDescription(1, e) EXCEPT !.stdout = o]
    /\ tc_calls = 0
    /\ tc_first = NOT_RUN

mainvars == <<num_suites, idx, pc, suite, backend, files, proc, run_result,
              printed, exception, steps>>

\* tc.evaluate(); tc_calls counts the calls since stdout was last written and
\* tc_first keeps the status the first of them left
EvaluateCall ==
    /\ tc_calls < MaxCalls
    /\ tc' = TestCaseEvaluate(tc)
    /\ tc_calls' = tc_calls + 1
    /\ tc_first' = IF tc_calls = 0 THEN tc'.status ELSE tc_first
    /\ UNCHANGED mainvars

\* test_case.stdout = test_output.rstrip() or '<empty>'
CaptureOutput ==
    /\ \E line \in Texts \cup {MissingSentinel} :
          tc' = [tc EXCEPT !.stdout = StoredOutput(line)]
    /\ tc' # tc
    /\ tc_calls' = 0
    /\ tc_first' = NOT_RUN
    /\ UNCHANGED mainvars

NextEvaluate == EvaluateCall \/ CaptureOutput

SpecEvaluate == InitEvaluate /\ [][NextEvaluate]_vars

\* ---- claims -------------------------------------------------------------
Outputs == run_result.output

NumCases == Len(suite.tests)

\* evaluate_tests has run for the current suite
Evaluated == pc = "report" \/ (pc \in {"main", "done"} /\ idx > 0)

\* the zip_longest loop of execute has run to its end for the current suite
ResultsMapped ==
    run_result.some /\ pc \in {"cleanup", "evaluate", "report", "main", "done"}

Printed(kind, i) == \E k \in 1..Len(printed) : printed[k] = [kind |-> kind, suite |-> i]

\* C1: once evaluate_tests has run for a suite, passed + failed + not_run is
\* the number of its test cases, whatever execute did before.
C1_CountersSumToCases ==
    Evaluated => suite.passed + suite.failed + suite.not_run = NumCases

C1_Witness ==
    /\ pc = "report"
    /\ run_result.some
    /\ Len(Outputs) < NumCases
    /\ suite.passed > 0
    /\ suite.failed > 0

\* C2: when no run command exists, the suite ends with passed = 0, failed = 0,
\* not_run = number of cases, every case still Not Run, and the "could not be
\* run" error printed.
C2_AbsentRuntimeAllNotRun ==
    (pc = "report" /\ ~run_result.some) =>
        /\ suite.passed = 0
        /\ suite.failed = 0
        /\ suite.not_run = NumCases
        /\ \A i \in 1..NumCases : suite.tests[i].status = NOT_RUN
        /\ Printed("error_not_run", idx)

\* C3: with M <= N captured lines, case i <= M holds line i (stored trimmed,
\* a blank line as "<empty>") and every case i > M holds "<missing output>".
C3_PositionalMapping ==
    (ResultsMapped /\ Len(Outputs) <= NumCases) =>
        \A i \in 1..NumCases :
            suite.tests[i].stdout =
                IF i <= Len(Outputs) THEN StoredOutput(Outputs[i])
                ELSE MissingSentinel

C3_Witness ==
    /\ pc = "cleanup"
    /\ NumCases = 2
    /\ Len(Outputs) = 1
    /\ suite.tests[1].stdout = <<"E">>
    /\ suite.tests[2].stdout = MissingSentinel

\* C4: with more captured lines than cases (M > N) execute completes normally.
C4_ExtraLinesDiscarded ==
    (run_result.some /\ Len(Outputs) > NumCases) => pc # "crashed"

C6_EvaluateIdempotent == tc_calls >= 1 => tc.status = tc_first

C6_Witness == tc_calls = 2 /\ tc.stdout = EmptySentinel /\ tc.status = PASSED

\* C7: after an unsupported extension was reported for a suite, every later
\* suite of the list is executed and reported before the program ends.
C7_UnsupportedSuiteSkipped ==
    pc \in {"done", "crashed"} =>
        \A i \in 1..num_suites :
            Printed("critical_extension", i) =>
                \A j \in (i + 1)..num_suites : Printed("report", j)

\* C8: a harness write failure (or any Backend failure but an unreadable
\* template) does not end the program.
C8_BackendFailureContained ==
    pc = "crashed" => exception \notin {"OSError(write)", "AttributeError"}

\* C9: once execute has returned for a suite, and when the next suite begins,
\* no harness file exists.
C9_HarnessRemoved ==
    pc \in {"evaluate", "report", "main", "init", "done"} => files = {}

\* C10: after result mapping no test case holds a line the process wrote to
\* its error stream, and every such line is among the suite's error lines.
C10_ErrorStreamAtSuiteLevel ==
    ResultsMapped =>
        \A k \in 1..Len(proc) :
            proc[k].stream = "stderr" =>
                /\ \A i \in 1..NumCases :
                      /\ suite.tests[i].stdout # RStrip(proc[k].text)
                      /\ suite.tests[i].stderr # RStrip(proc[k].text)
                /\ \E l \in 1..Len(suite.stderr_lines) :
                      suite.stderr_lines[l] = RStrip(proc[k].text)

\* the steps of one suite in the order the pipeline is to take them; a failed
\* step has the rank of the step it was
StepRank(step) ==
    CASE step \in {"generate", "generate_failed"} -> 1
      [] step = "run" -> 2
      [] step \in {"map", "map_failed"} -> 3
      [] step = "evaluate" -> 4
      [] step = "report" -> 5

C12_RegistrySelectsByLanguage ==
    LET language == FromExtension(suite.ext)
    IN  (idx > 0 /\ pc # "init" /\ language # "") =>
            IF \E cls \in BackendClasses : BoundLanguage(cls) = language
            THEN /\ backend \in BackendClasses
                 /\ BoundLanguage(backend) = language
                 /\ exception # "ImportError"
            ELSE pc = "crashed" /\ exception = "ImportError"

\* C13: after result mapping no test case holds an empty actual output: a
\* blank captured line is stored as "<empty>", a case without a line holds
\* "<missing output>", and the two sentinels differ.
C13_NoEmptyActualOutput ==
    ResultsMapped =>
        /\ EmptySentinel # MissingSentinel
        /\ \A i \in 1..NumCases :
              /\ RStrip(suite.tests[i].stdout) # <<>>
              /\ (i <= Len(proc) /\ RStrip(proc[i].text) = <<>>)
                    => suite.tests[i].stdout = EmptySentinel
              /\ i > Len(proc) => suite.tests[i].stdout = MissingSentinel

C13_Witness ==
    /\ pc = "cleanup"
    /\ NumCases = 2
    /\ Len(proc) = 1
    /\ proc[1].text = <<" ">>
    /\ suite.tests[1].stdout = EmptySentinel
    /\ suite.tests[2].stdout = MissingSentinel

Min(a, b) == IF a <= b THEN a ELSE b

\* C14: a run that took place is mapped to the test cases whatever its exit
\* code was, and the "could not be run" abort is only taken when there was no
\* run command.
C14_ExitCodeIgnored ==
    /\ Printed("error_not_run", idx) => ~run_result.some
    /\ (run_result.some /\ pc # "map") =>
          \A i \in 1..Min(Len(Outputs), NumCases) :
              suite.tests[i].stdout = StoredOutput(Outputs[i])

C14_Witness ==
    /\ pc = "cleanup"
    /\ run_result.exit_code = 1
    /\ Len(Outputs) = 1
    /\ suite.tests[1].stdout = <<"5">>
    /\ ~Printed("error_not_run", idx)
====
